---- MODULE Spec2Model ----
(***************************************************************************)
(* Model of the occupancy-backend prediction scripts:                      *)
(*   gb_prediction/make_prediction.py    (week-keyed schedule, "gb_week")  *)
(*   gb_prediction/make_predictions.py   (flat schedule,       "gb_flat")  *)
(*   lstm_prediction/make_predictions.py (sequence path,       "lstm")     *)
(*                                                                         *)
(* Time is counted in whole minutes from Monday 2024-01-01 00:00, so that  *)
(* day 0 is a Monday.  Floats are kept as exact fractions n/d with d > 0.  *)
(* The sine/cosine columns of extract_features_dates and the term-time      *)
(* column of classify_term_time are not carried: they cannot raise on a     *)
(* non-empty frame and nothing below reads them.                            *)
(***************************************************************************)
EXTENDS Integers, Sequences, FiniteSets, TLC

VARIABLES
    script,        \* which of the three scripts runs
    pc,            \* position in main()
    argv,          \* the command line: its length and its arguments
    date_from,     \* date_from / opening_datetime
    date_to,       \* date_to / closing_datetime
    interval,      \* interval_minutes / TIME_INTERVAL
    seasonal,      \* lstm: (day - Jan 1).days / 365
    schedule,      \* the constructed Schedule object
    current,       \* the generator's / loop's cursor
    timestamps,    \* tabular: the timestamps generate_datetime_range has yielded
    original,      \* lstm: isoformat strings
    timings,       \* lstm: feature rows [normalised, seasonal]
    df,            \* tabular: feature rows of the DataFrame
    sequence_length, \* create_sequences' window length
    seq_i,         \* create_sequences' loop index i (0-based)
    X,             \* create_sequences' windows
    y,             \* create_sequences' target indices (0-based)
    model,         \* the loaded external model
    predictions,   \* what the model returned (after clipping on the tabular paths)
    output,        \* the output file
    error,         \* the uncaught exception that ended the run, or "none"
    exit_code,     \* the process exit status once the run ended, else -1
    stdout         \* lines printed

vars == <<script, pc, argv, date_from, date_to, interval, seasonal, schedule,
          current, timestamps, original, timings, df, sequence_length, seq_i,
          X, y, model, predictions, output, error, exit_code, stdout>>

----------------------------------------------------------------------------
(* Calendar arithmetic on minute counts.                                   *)

\* timestamp.hour, timestamp.minute, and the day the timestamp lies in
\* (1440 minutes a day, 60 minutes an hour).
HourOf(t) == (t % 1440) \div 60
MinuteOf(t) == (t % 1440) % 60
DayOf(t) == t \div 1440

\* Schedule.timestamp_to_hhmm
timestamp_to_hhmm(timestamp) == HourOf(timestamp) * 100 + MinuteOf(timestamp)

\* Schedule.get_weekday: Monday = 0
get_weekday(timestamp) == DayOf(timestamp) % 7

\* Schedule.get_start_of_week: subtract the days since Monday, then normalize()
\* to midnight.
get_start_of_week(timestamp) ==
    LET days_since_monday == get_weekday(timestamp)
        monday == timestamp - days_since_monday * 1440
    IN  DayOf(monday) * 1440

----------------------------------------------------------------------------
(* Values and exceptions.                                                  *)

Value(n, d) == [kind |-> "value", n |-> n, d |-> d]
Raise(e) == [kind |-> "raise", err |-> e]
Object(o) == [kind |-> "object", obj |-> o]

\* Python's true division a / b.
TrueDiv(a, b) ==
    IF b = 0 THEN Raise("ZeroDivisionError")
    ELSE IF b < 0 THEN Value(-a, -b)
    ELSE Value(a, b)

\* Comparisons of fractions with positive denominators.
FracLess(a, b) == a.n * b.d < b.n * a.d
FracLeq(a, b) == a.n * b.d <= b.n * a.d
FracEq(a, b) == a.n * b.d = b.n * a.d

----------------------------------------------------------------------------
(* Timing and Schedule.                                                    *)

Timing(opening, closing, isOpen) ==
    [opening |-> opening, closing |-> closing, isOpen |-> isOpen]

\* self.default of both Schedule classes.
DefaultSchedule ==
    << Timing(630, 2230, TRUE), Timing(630, 2230, TRUE), Timing(630, 2230, TRUE),
       Timing(630, 2230, TRUE), Timing(630, 2230, TRUE),
       Timing(800, 2100, TRUE), Timing(800, 2100, TRUE) >>

\* A dictionary key decoded from JSON text is a str; the key looked up by
\* get_number is a pandas Timestamp.  Values of different types are never
\* equal (and hash apart), whatever date they denote.
JsonStr(minutes) == [type |-> "str", at |-> minutes]
Timestamp(minutes) == [type |-> "Timestamp", at |-> minutes]

\* The tail of get_number (both classes): the three-way branch.
\* (mutants: the divisor taken as closing; the closing test left out)
ProgressWrongDivisor(number, opening, closing) ==
    IF number <= opening THEN Value(0, 1)
    ELSE IF number >= closing THEN Value(1, 1)
    ELSE TrueDiv(number - opening, closing)

ProgressNoClosingTest(number, opening, closing) ==
    IF number <= opening THEN Value(0, 1)
    ELSE TrueDiv(number - opening, closing - opening)

Progress(number, opening, closing) ==
    IF number <= opening THEN Value(0, 1)
    ELSE IF number >= closing THEN Value(1, 1)
    ELSE TrueDiv(number - opening, closing - opening)

\* The Timing make_prediction.py's get_number picks: the week's entry when
\* `start in self.data`, else the default's.
ResolveTimingWeek(sch, timestamp) ==
    LET start == Timestamp(get_start_of_week(timestamp))
        index == get_weekday(timestamp)
    IN  IF start \in DOMAIN sch.data
        THEN sch.data[start][index + 1]
        ELSE sch.default[index + 1]

\* make_prediction.py: Schedule.get_number
get_number_week(sch, timestamp) ==
    LET number == timestamp_to_hhmm(timestamp)
        t == ResolveTimingWeek(sch, timestamp)
    IN  Progress(number, t.opening, t.closing)

\* make_predictions.py: Schedule.get_number (self.data is the flat list).
get_number_flat(sch, timestamp) ==
    LET number == timestamp_to_hhmm(timestamp)
        index == get_weekday(timestamp)
    IN  IF index + 1 > Len(sch.data) THEN Raise("IndexError")
        ELSE Progress(number, sch.data[index + 1].opening, sch.data[index + 1].closing)

\* d[k] = v on a dict held as a function.
DictPut(d, k, v) == [x \in (DOMAIN d) \cup {k} |-> IF x = k THEN v ELSE d[x]]

\* One {opening, closing, open} object of the payload becomes a Timing.
TimingOfJson(jsontime) == Timing(jsontime.opening, jsontime.closing, jsontime.open)

\* make_prediction.py: the body of Schedule.__init__'s loop `for i in
\* range(len(sch))`, from index i on.  sch is the decoded payload: the pair of
\* parallel arrays (week-start dates, per-week JSON blobs), sch[0] and sch[1]
\* in Python, sch[1] and sch[2] here.
RECURSIVE ScheduleWeekLoop(_, _, _)
ScheduleWeekLoop(sch, i, data) ==
    IF i >= Len(sch) THEN Object([default |-> DefaultSchedule, data |-> data])
    ELSE IF i + 1 > Len(sch[1]) THEN Raise("IndexError")
    ELSE IF i + 1 > Len(sch[2]) THEN Raise("IndexError")
    ELSE LET date == sch[1][i + 1]
             blob == sch[2][i + 1]
         IN  IF ~blob.wellformed THEN Raise("JSONDecodeError")
             ELSE IF Len(blob.timings) < 7 THEN Raise("IndexError")
             ELSE ScheduleWeekLoop(sch, i + 1,
                      DictPut(data, JsonStr(date),
                              [j \in 1..7 |-> TimingOfJson(blob.timings[j])]))

\* make_prediction.py: Schedule.__init__
ScheduleWeekInit(sch) == ScheduleWeekLoop(sch, 0, <<>>)

\* make_predictions.py: Schedule.__init__ (json.loads, then every entry of
\* 'timings', however many there are).
ScheduleFlatInit(sch_json) ==
    IF ~sch_json.wellformed THEN Raise("JSONDecodeError")
    ELSE Object([default |-> DefaultSchedule,
                 data |-> [j \in 1..Len(sch_json.timings) |->
                              TimingOfJson(sch_json.timings[j])]])

----------------------------------------------------------------------------
(* Formatting.                                                             *)

\* datetime.isoformat(): 'YYYY-MM-DDTHH:MM:SS'
Isoformat(t) ==
    [date |-> DayOf(t), sep |-> "T", hour |-> HourOf(t), minute |-> MinuteOf(t), second |-> 0]

\* strftime('%Y-%m-%d %H:%M:%S')
Strftime(t) ==
    [date |-> DayOf(t), sep |-> " ", hour |-> HourOf(t), minute |-> MinuteOf(t), second |-> 0]

----------------------------------------------------------------------------
(* Slices, windows, the external model.                                    *)

Min(a, b) == IF a < b THEN a ELSE b
Max(a, b) == IF a > b THEN a ELSE b

\* Python's s[start:stop] for 0 <= start (stop clamped to the length).
Slice(s, start, stop) == SubSeq(s, Min(start, Len(s)) + 1, Min(stop, Len(s)))

\* Python's s[-k::] for k >= 1: the last k elements, all of s when k > len(s).
LastK(s, k) == SubSeq(s, Max(Len(s) - k, 0) + 1, Len(s))

\* create_sequences: the window and the target index appended for index i.
\* (mutant: near the end the window is what is left from i on)
WindowNoPad(features, i, length) ==
    IF i + length >= Len(features)
    THEN [window |-> Slice(features, i, Len(features)), target |-> Len(features) - 1]
    ELSE [window |-> Slice(features, i, i + length), target |-> i + length]

Window(features, i, length) ==
    IF i + length >= Len(features)
    THEN [window |-> LastK(features, length), target |-> Len(features) - 1]
    ELSE [window |-> Slice(features, i, i + length), target |-> i + length]

\* SEQUENCE_LENGTH, TIME_INTERVAL (minutes) of the lstm script; the interval
\* main() passes to generate_datetime_range.
SEQUENCE_LENGTH == 12 * 4
TIME_INTERVAL == 1
IntervalMinutes == 5

\* The external model is an opaque function of a row.  It is taken from the
\* functions that answer by the row's class only; a prediction is a fraction
\* PredNum / 2, so below 0, inside [0,1] and above 1 all occur.
PredNums == {-1, 1, 3}
Prediction(n) == Value(n, 2)
Models == [{0, 1} -> PredNums]

\* Class of a tabular row: has the day's progress started?
RowClassTabular(row) == IF row.schedule.n > 0 THEN 1 ELSE 0
\* Class of a window: does it start at the opening time?
RowClassWindow(w) == IF Len(w) > 0 /\ w[1].normalised.n = 0 THEN 0 ELSE 1

\* np.clip(p, 0, 1)
Clip(p) ==
    IF FracLess(p, Value(0, 1)) THEN Value(0, 1)
    ELSE IF FracLess(Value(1, 1), p) THEN Value(1, 1)
    ELSE p

\* p * 100
Times100(p) == Value(p.n * 100, p.d)

----------------------------------------------------------------------------
(* The command lines the runs are started with.                            *)

\* A date argument: whether strptime accepts it, and the fields it reads.
DateArg(day, hour, minute) == [ok |-> TRUE, day |-> day, hour |-> hour, minute |-> minute]
BadDateArg == [ok |-> FALSE, day |-> 0, hour |-> 0, minute |-> 0]
\* An integer argument: whether int() accepts it, and its value.
IntArg(v) == [ok |-> TRUE, val |-> v]
BadIntArg == [ok |-> FALSE, val |-> 0]

\* The argument that spells the time t.
ArgOfMinutes(t) == DateArg(DayOf(t), HourOf(t), MinuteOf(t))

\* strptime: the minute count of the parsed fields.
Strptime(arg) == arg.day * 1440 + arg.hour * 60 + arg.minute

JsonTiming(opening, closing) == [opening |-> opening, closing |-> closing, open |-> TRUE]
\* A 'timings' array with the first k weekdays, all opening..closing.
JsonWeek(opening, closing, k) == [j \in 1..k |-> JsonTiming(opening, closing)]
Blob(entries) == [wellformed |-> TRUE, timings |-> entries]
BadBlob == [wellformed |-> FALSE, timings |-> <<>>]

\* Longest span date_to - date_from of the week-keyed runs, in 5-minute steps.
MaxSpanSteps == 2

\* make_prediction.py: payloads (week-start dates, per-week blobs).
WeekPayloads ==
    LET w0 == Blob(JsonWeek(900, 1700, 7))
        w1 == Blob(JsonWeek(1000, 1200, 7))
        wEq == Blob(JsonWeek(900, 900, 7))
        short == Blob(JsonWeek(900, 1700, 5))
        P(dates, blobs) == [wellformed |-> TRUE, sch |-> <<dates, blobs>>]
    IN  { [wellformed |-> FALSE, sch |-> << <<>>, <<>> >>],
          P(<<>>, <<>>),
          P(<<0>>, <<w0>>),
          P(<<0, 10080>>, <<w0, w1>>),
          P(<<0, 10080>>, <<wEq, w1>>),
          P(<<0, 10080>>, <<w0, short>>),
          P(<<0, 10080>>, <<w0, BadBlob>>),
          P(<<0, 10080, 20160>>, <<w0, w1, w0>>),
          P(<<0, 10080, 20160>>, <<w0, w1, short>>) }

\* make_predictions.py: payloads {"timings": [...]}.
FlatPayloads ==
    { BadBlob,
      Blob(JsonWeek(630, 2230, 7)),
      Blob(JsonWeek(900, 900, 7)),
      Blob(JsonWeek(1700, 900, 7)),
      Blob(JsonWeek(630, 2230, 5)),
      Blob(<<>>) }

ArgvWeek ==
    { [argc |-> n, date_from |-> BadDateArg, date_to |-> BadDateArg,
       schedule |-> [wellformed |-> FALSE, sch |-> << <<>>, <<>> >>]] : n \in {3, 5} }
    \cup
    { [argc |-> 4, date_from |-> BadDateArg, date_to |-> DateArg(0, 8, 0),
       schedule |-> p] : p \in {[wellformed |-> FALSE, sch |-> << <<>>, <<>> >>]} }
    \cup
    { [argc |-> 4, date_from |-> ArgOfMinutes(f),
       date_to |-> ArgOfMinutes(f + 5 * k), schedule |-> p] :
         f \in { 8 * 60, 16 * 60 + 50, 5 * 1440 + 8 * 60, 7 * 1440 + 10 * 60 + 30,
                 14 * 1440 + 8 * 60 },
         k \in -1..MaxSpanSteps, p \in WeekPayloads }

\* Longest span of the flat runs, in days (dates have no time of day there).
MaxSpanDays == 1

ArgvFlat ==
    { [argc |-> n, date_from |-> BadDateArg, date_to |-> BadDateArg,
       schedule |-> BadBlob] : n \in {3, 5} }
    \cup
    { [argc |-> 4, date_from |-> DateArg(0, 0, 0), date_to |-> BadDateArg,
       schedule |-> BadBlob] }
    \cup
    { [argc |-> 4, date_from |-> DateArg(d, 0, 0), date_to |-> DateArg(d + k, 0, 0),
       schedule |-> p] : d \in {0, 5}, k \in -1..MaxSpanDays, p \in FlatPayloads }

ArgvLstm ==
    { [argc |-> n, day |-> BadDateArg, opening |-> BadIntArg, closing |-> BadIntArg] :
         n \in {3, 5} }
    \cup
    { [argc |-> 4, day |-> BadDateArg, opening |-> IntArg(900), closing |-> IntArg(1700)],
      [argc |-> 4, day |-> DateArg(0, 0, 0), opening |-> BadIntArg, closing |-> IntArg(1700)],
      [argc |-> 4, day |-> DateArg(0, 0, 0), opening |-> IntArg(900), closing |-> IntArg(960)],
      [argc |-> 4, day |-> DateArg(0, 0, 0), opening |-> IntArg(2400), closing |-> IntArg(900)] }
    \cup
    { [argc |-> 4, day |-> DateArg(d, 0, 0), opening |-> IntArg(oc[1]), closing |-> IntArg(oc[2])] :
         d \in {0, 100},
         oc \in { <<900, 900>>, <<900, 859>>, <<900, 901>>, <<900, 902>>,
                  <<900, 947>>, <<900, 948>>, <<900, 950>>, <<2359, 0>> } }

\* The output file before the run: absent, or left by an earlier run.
StaleLine == [datetime |-> Isoformat(0), occupancy |-> Value(0, 1)]
OutputsBefore ==
    { [exists |-> FALSE, lines |-> <<>>, touched |-> FALSE],
      [exists |-> TRUE, lines |-> <<StaleLine>>, touched |-> FALSE] }

----------------------------------------------------------------------------
(* The run of main().                                                      *)

Tabular == {"gb_week", "gb_flat"}

\* State no statement has touched yet.
Fresh ==
    /\ date_from = 0 /\ date_to = 0 /\ seasonal = Value(0, 1)
    /\ schedule = [default |-> DefaultSchedule, data |-> <<>>]
    /\ current = 0 /\ timestamps = <<>> /\ original = <<>> /\ timings = <<>>
    /\ df = <<>> /\ seq_i = 0 /\ X = <<>> /\ y = <<>>
    /\ model = "none" /\ predictions = <<>>
    /\ error = "none" /\ exit_code = -1 /\ stdout = <<>>

Init ==
    /\ pc = "start"
    /\ \/ script = "gb_week" /\ argv \in ArgvWeek /\ interval = IntervalMinutes
       \/ script = "gb_flat" /\ argv \in ArgvFlat /\ interval = IntervalMinutes
       \/ script = "lstm" /\ argv \in ArgvLstm /\ interval = TIME_INTERVAL
    /\ sequence_length = SEQUENCE_LENGTH
    /\ output \in OutputsBefore
    /\ Fresh

\* An uncaught exception: the interpreter prints the traceback and exits 1.
Crash(e) == pc' = "failed" /\ error' = e /\ exit_code' = 1

locals == <<date_from, date_to, seasonal, schedule, current, timestamps, original,
            timings, df, sequence_length, seq_i, X, y, model, predictions>>
fixed == <<script, argv, interval>>

\* if len(sys.argv) != 4: print usage; sys.exit(1)
CheckArgs ==
    /\ pc = "start"
    /\ IF argv.argc # 4
       THEN /\ stdout' = Append(stdout, "Usage")
            /\ pc' = "exited" /\ exit_code' = 1
       ELSE /\ pc' = "parse"
            /\ UNCHANGED <<stdout, exit_code>>
    /\ UNCHANGED <<fixed, locals, output, error>>

\* date_from = strptime(argv[1]); date_to = strptime(argv[2])
ParseDates ==
    /\ pc = "parse" /\ script \in Tabular
    /\ IF ~argv.date_from.ok \/ ~argv.date_to.ok
       THEN Crash("ValueError") /\ UNCHANGED <<date_from, date_to>>
       ELSE /\ date_from' = Strptime(argv.date_from)
            /\ date_to' = Strptime(argv.date_to)
            /\ pc' = "schedule"
            /\ UNCHANGED <<error, exit_code>>
    /\ UNCHANGED <<fixed, seasonal, schedule, current, timestamps, original, timings,
                   df, sequence_length, seq_i, X, y, model, predictions, output, stdout>>

\* make_prediction.py: json.loads(schedule_json_str); Schedule(schedule_data)
\* make_predictions.py: Schedule(schedule_json_str)
ParseSchedule ==
    /\ pc = "schedule"
    /\ LET r == IF script = "gb_week"
                THEN IF ~argv.schedule.wellformed THEN Raise("JSONDecodeError")
                     ELSE ScheduleWeekInit(argv.schedule.sch)
                ELSE ScheduleFlatInit(argv.schedule)
       IN  IF r.kind = "raise"
           THEN Crash(r.err) /\ UNCHANGED schedule
           ELSE /\ schedule' = r.obj
                /\ pc' = "load_model"
                /\ UNCHANGED <<error, exit_code>>
    /\ UNCHANGED <<fixed, date_from, date_to, seasonal, current, timestamps, original,
                   timings, df, sequence_length, seq_i, X, y, model, predictions,
                   output, stdout>>

\* pickle.load(open('gb_model.pkl')) / tf.keras.models.load_model(...): the
\* artifact loads, or the load raises.
LoadModel ==
    /\ pc = "load_model"
    /\ \/ Crash("ModelLoadError") /\ UNCHANGED <<model, current>>
       \/ /\ model' = "loaded"
          /\ IF script = "lstm"
             THEN pc' = "predict" /\ UNCHANGED current
             ELSE pc' = "timestamps" /\ current' = date_from
          /\ UNCHANGED <<error, exit_code>>
    /\ UNCHANGED <<fixed, date_from, date_to, seasonal, schedule, timestamps, original,
                   timings, df, sequence_length, seq_i, X, y, predictions, output, stdout>>

\* The loop condition of generate_datetime_range and of the lstm loop.
\* (mutant: the upper bound excluded)
ContinuesExclusive(cur, to) == cur < to

Continues(cur, to) == cur <= to

\* generate_datetime_range: one turn of `while current <= date_to`.
GenYield ==
    /\ pc = "timestamps"
    /\ Continues(current, date_to)
    /\ timestamps' = Append(timestamps, current)
    /\ current' = current + interval
    /\ UNCHANGED <<fixed, pc, date_from, date_to, seasonal, schedule, original, timings,
                   df, sequence_length, seq_i, X, y, model, predictions, output, error,
                   exit_code, stdout>>

\* generate_datetime_range: the loop condition fails, list() returns.
GenStop ==
    /\ pc = "timestamps"
    /\ ~Continues(current, date_to)
    /\ pc' = "features"
    /\ UNCHANGED <<fixed, locals, output, error, exit_code, stdout>>

\* extract_features_dates's day_progress of one timestamp (seconds are 0).
DayProgress(t) == Value(HourOf(t) * 3600 + MinuteOf(t) * 60 + 0, 86400)

\* df = DataFrame({'timestamp': timestamps}); extract_features_dates(df).
\* An empty column is not datetime-typed: its .dt accessor raises.
ExtractFeatures ==
    /\ pc = "features"
    /\ IF timestamps = <<>>
       THEN Crash("AttributeError") /\ UNCHANGED df
       ELSE /\ df' = [i \in 1..Len(timestamps) |->
                        [timestamp |-> timestamps[i],
                         day_progress |-> DayProgress(timestamps[i])]]
            /\ pc' = "schedule_feature"
            /\ UNCHANGED <<error, exit_code>>
    /\ UNCHANGED <<fixed, date_from, date_to, seasonal, schedule, current, timestamps,
                   original, timings, sequence_length, seq_i, X, y, model, predictions,
                   output, stdout>>

\* schedule.get_number of the script that runs.
get_number(sch, timestamp) ==
    IF script = "gb_week" THEN get_number_week(sch, timestamp)
    ELSE get_number_flat(sch, timestamp)

\* df['schedule'] = df['timestamp'].apply(schedule.get_number)
\* (make_predictions.py's classify_term_time then adds a column and cannot raise).
AddScheduleFeature ==
    /\ pc = "schedule_feature"
    /\ LET col == [i \in 1..Len(df) |-> get_number(schedule, df[i].timestamp)]
           bad == {i \in 1..Len(df) : col[i].kind = "raise"}
       IN  IF bad # {}
           THEN Crash(col[CHOOSE i \in bad : \A j \in bad : i <= j].err) /\ UNCHANGED df
           ELSE /\ df' = [i \in 1..Len(df) |->
                            [timestamp |-> df[i].timestamp,
                             day_progress |-> df[i].day_progress,
                             schedule |-> col[i]]]
                /\ pc' = "predict"
                /\ UNCHANGED <<error, exit_code>>
    /\ UNCHANGED <<fixed, date_from, date_to, seasonal, schedule, current, timestamps,
                   original, timings, sequence_length, seq_i, X, y, model, predictions,
                   output, stdout>>

\* datetime(year, month, day, hour, minute) accepts hour 0..23, minute 0..59.
ValidClock(hhmm) == (hhmm \div 100) \in 0..23 /\ (hhmm % 100) \in 0..59
ClockDatetime(day, hhmm) == day + (hhmm \div 100) * 60 + (hhmm % 100)

\* lstm main(): day = strptime(argv[1]); opening = int(argv[2]); closing =
\* int(argv[3]); opening_datetime, closing_datetime; seasonal; current_time.
\* The days used lie in 2024, the year the minute count starts in, so the
\* days since January 1st are the day's index.
LstmParseArgs ==
    /\ pc = "parse" /\ script = "lstm"
    /\ IF \/ ~argv.day.ok \/ ~argv.opening.ok \/ ~argv.closing.ok
          \/ ~ValidClock(argv.opening.val) \/ ~ValidClock(argv.closing.val)
       THEN Crash("ValueError") /\ UNCHANGED <<date_from, date_to, seasonal, current>>
       ELSE LET day == Strptime(argv.day)
            IN  /\ date_from' = ClockDatetime(day, argv.opening.val)
                /\ date_to' = ClockDatetime(day, argv.closing.val)
                /\ seasonal' = TrueDiv(DayOf(day), 365)
                /\ current' = ClockDatetime(day, argv.opening.val)
                /\ pc' = "loop"
                /\ UNCHANGED <<error, exit_code>>
    /\ UNCHANGED <<fixed, schedule, timestamps, original, timings, df, sequence_length,
                   seq_i, X, y, model, predictions, output, stdout>>

\* One turn of `while current_time <= closing_datetime`: append the isoformat,
\* compute normalised (seconds over seconds), append the feature row, step.
LstmLoopStep ==
    /\ pc = "loop"
    /\ Continues(current, date_to)
    /\ original' = Append(original, Isoformat(current))
    /\ LET normalised == TrueDiv(current * 60 - date_from * 60, date_to * 60 - date_from * 60)
       IN  IF normalised.kind = "raise"
           THEN Crash(normalised.err) /\ UNCHANGED <<timings, current>>
           ELSE /\ timings' = Append(timings, [normalised |-> normalised, seasonal |-> seasonal])
                /\ current' = current + interval
                /\ UNCHANGED <<pc, error, exit_code>>
    /\ UNCHANGED <<fixed, date_from, date_to, seasonal, schedule, timestamps, df,
                   sequence_length, seq_i, X, y, model, predictions, output, stdout>>

\* The loop ends; create_sequences(timings, [0] * len(timings), SEQUENCE_LENGTH)
\* is entered.
LstmLoopEnd ==
    /\ pc = "loop"
    /\ ~Continues(current, date_to)
    /\ pc' = "sequences"
    /\ sequence_length' = SEQUENCE_LENGTH
    /\ seq_i' = 0 /\ X' = <<>> /\ y' = <<>>
    /\ UNCHANGED <<fixed, date_from, date_to, seasonal, schedule, current, timestamps,
                   original, timings, df, model, predictions, output, error, exit_code,
                   stdout>>

\* create_sequences: one turn of `for i in range(len(features))`.
CreateSequencesStep ==
    /\ pc = "sequences"
    /\ seq_i < Len(timings)
    /\ LET w == Window(timings, seq_i, sequence_length)
       IN  /\ X' = Append(X, w.window)
           /\ y' = Append(y, w.target)
    /\ seq_i' = seq_i + 1
    /\ UNCHANGED <<fixed, pc, date_from, date_to, seasonal, schedule, current, timestamps,
                   original, timings, df, sequence_length, model, predictions, output,
                   error, exit_code, stdout>>

\* create_sequences returns np.array(X), np.array(y).
CreateSequencesReturn ==
    /\ pc = "sequences"
    /\ ~(seq_i < Len(timings))
    /\ pc' = "load_model"
    /\ UNCHANGED <<fixed, locals, output, error, exit_code, stdout>>

\* (mutant: the output file is opened for writing before the model is asked)
PredictIntoOpenFile ==
    /\ pc = "predict"
    /\ output' = [exists |-> TRUE, touched |-> TRUE, lines |-> <<>>]
    /\ \/ Crash("ModelInvocationError") /\ UNCHANGED predictions
       \/ /\ \E m \in Models :
                predictions' =
                    IF script = "lstm"
                    THEN [i \in 1..Len(X) |-> Prediction(m[RowClassWindow(X[i])])]
                    ELSE [i \in 1..Len(df) |-> Prediction(m[RowClassTabular(df[i])])]
          /\ pc' = IF script = "lstm" THEN "open" ELSE "clip"
          /\ UNCHANGED <<error, exit_code>>
    /\ UNCHANGED <<fixed, date_from, date_to, seasonal, schedule, current, timestamps,
                   original, timings, df, sequence_length, seq_i, X, y, model, stdout>>

\* model.predict: the model answers every row, or raises.
Predict ==
    /\ pc = "predict"
    /\ \/ Crash("ModelInvocationError") /\ UNCHANGED predictions
       \/ /\ \E m \in Models :
                predictions' =
                    IF script = "lstm"
                    THEN [i \in 1..Len(X) |-> Prediction(m[RowClassWindow(X[i])])]
                    ELSE [i \in 1..Len(df) |-> Prediction(m[RowClassTabular(df[i])])]
          /\ pc' = IF script = "lstm" THEN "open" ELSE "clip"
          /\ UNCHANGED <<error, exit_code>>
    /\ UNCHANGED <<fixed, date_from, date_to, seasonal, schedule, current, timestamps,
                   original, timings, df, sequence_length, seq_i, X, y, model, output,
                   stdout>>

\* predictions = np.clip(predictions, 0, 1)
ClipPredictions ==
    /\ pc = "clip"
    /\ predictions' = [i \in 1..Len(predictions) |-> Clip(predictions[i])]
    /\ pc' = "write"
    /\ UNCHANGED <<fixed, date_from, date_to, seasonal, schedule, current, timestamps,
                   original, timings, df, sequence_length, seq_i, X, y, model, output,
                   error, exit_code, stdout>>

\* The occupancy column: predictions (make_prediction.py), predictions * 100
\* (make_predictions.py).
Occupancy(p) == IF script = "gb_flat" THEN Times100(p) ELSE p

\* output_df = DataFrame({datetime, occupancy}); output_df.to_csv('output.csv')
WriteCsv ==
    /\ pc = "write"
    /\ output' = [exists |-> TRUE, touched |-> TRUE,
                  lines |-> [i \in 1..Len(df) |->
                               [datetime |-> Strftime(df[i].timestamp),
                                occupancy |-> Occupancy(predictions[i])]]]
    /\ pc' = "done" /\ exit_code' = 0
    /\ UNCHANGED <<fixed, locals, error, stdout>>

\* with open("output", "w") as f: the file is created or truncated.
OpenOutput ==
    /\ pc = "open"
    /\ output' = [exists |-> TRUE, touched |-> TRUE, lines |-> <<>>]
    /\ pc' = "write_lines"
    /\ UNCHANGED <<fixed, locals, error, exit_code, stdout>>

\* for time, val in zip(original, pred): f.write(time, val[0] * 100)
WriteLine ==
    /\ pc = "write_lines"
    /\ LET k == Len(output.lines) + 1
       IN  /\ k <= Min(Len(original), Len(predictions))
           /\ output' = [output EXCEPT !.lines =
                            Append(@, [datetime |-> original[k],
                                       occupancy |-> Times100(predictions[k])])]
    /\ UNCHANGED <<fixed, locals, pc, error, exit_code, stdout>>

\* zip is exhausted, the file is closed, main returns.
CloseOutput ==
    /\ pc = "write_lines"
    /\ Len(output.lines) >= Min(Len(original), Len(predictions))
    /\ pc' = "done" /\ exit_code' = 0
    /\ UNCHANGED <<fixed, locals, output, error, stdout>>

Next ==
    \/ CheckArgs \/ ParseDates \/ ParseSchedule \/ LoadModel
    \/ GenYield \/ GenStop \/ ExtractFeatures \/ AddScheduleFeature
    \/ LstmParseArgs \/ LstmLoopStep \/ LstmLoopEnd
    \/ CreateSequencesStep \/ CreateSequencesReturn
    \/ Predict \/ ClipPredictions \/ WriteCsv
    \/ OpenOutput \/ WriteLine \/ CloseOutput

Spec == Init /\ [][Next]_vars

----------------------------------------------------------------------------
(* get_number on its own: two rows, so that two results can be compared.   *)

\* Largest minute after midnight, and largest HHMM value, of the small ranges.
MaxMinute == 3
MaxClock == 4

\* Times of day (minutes after midnight) and days of the rows.
ProgressTimes ==
    (0..MaxMinute) \cup
    { 3 * 60, 6 * 60 + 29, 6 * 60 + 30, 6 * 60 + 31, 8 * 60, 8 * 60 + 1, 14 * 60 + 15,
      20 * 60 + 59, 21 * 60, 22 * 60 + 29, 22 * 60 + 30, 22 * 60 + 31, 23 * 60 + 59 }
ProgressDays == {0, 5}
\* HHMM values of the payload's opening and closing: any integers.
ProgressClocks == (-1..MaxClock) \cup {630, 2230, 2400}

\* Monday to Friday opening..closing, Saturday and Sunday closing..opening.
JsonWeekSplit(opening, closing) ==
    [j \in 1..7 |-> IF j <= 5 THEN JsonTiming(opening, closing)
                    ELSE JsonTiming(closing, opening)]

InitProgress ==
    /\ pc = "schedule_feature"
    /\ \/ /\ script = "gb_flat"
          /\ \E o \in ProgressClocks, c \in ProgressClocks :
                /\ argv = [argc |-> 4, date_from |-> BadDateArg, date_to |-> BadDateArg,
                           schedule |-> Blob(JsonWeekSplit(o, c))]
                /\ schedule = ScheduleFlatInit(Blob(JsonWeekSplit(o, c))).obj
       \/ /\ script = "gb_week"
          /\ \E p \in WeekPayloads :
                /\ p.wellformed
                /\ ScheduleWeekInit(p.sch).kind = "object"
                /\ argv = [argc |-> 4, date_from |-> BadDateArg, date_to |-> BadDateArg,
                           schedule |-> p]
                /\ schedule = ScheduleWeekInit(p.sch).obj
    /\ interval = IntervalMinutes
    /\ \E d \in ProgressDays, m1 \in ProgressTimes, m2 \in ProgressTimes :
          /\ m1 <= m2
          /\ timestamps = <<d * 1440 + m1, d * 1440 + m2>>
          /\ df = [i \in 1..2 |-> [timestamp |-> timestamps[i],
                                    day_progress |-> DayProgress(timestamps[i])]]
    /\ date_from = 0 /\ date_to = 0 /\ seasonal = Value(0, 1) /\ current = 0
    /\ original = <<>> /\ timings = <<>>
    /\ sequence_length = SEQUENCE_LENGTH /\ seq_i = 0 /\ X = <<>> /\ y = <<>>
    /\ model = "loaded" /\ predictions = <<>>
    /\ output \in OutputsBefore
    /\ error = "none" /\ exit_code = -1 /\ stdout = <<>>

NextProgress == AddScheduleFeature

SpecProgress == InitProgress /\ [][NextProgress]_vars

\* The Timing get_number reads for a timestamp.
TimingUsed(t) ==
    IF script = "gb_week" THEN ResolveTimingWeek(schedule, t)
    ELSE schedule.data[get_weekday(t) + 1]

Applied == pc = "predict" /\ script \in Tabular

\* C1: with opening < closing, get_number (both variants) is 0 up to the opening,
\* 1 from the closing on, and in between (hhmm - opening) / (closing - opening),
\* strictly between 0 and 1 and strictly increasing in hhmm.
C1_ProgressContract ==
    Applied =>
        /\ \A i \in 1..Len(df) :
              LET T == TimingUsed(df[i].timestamp)
                  number == timestamp_to_hhmm(df[i].timestamp)
                  v == df[i].schedule
              IN  T.opening < T.closing =>
                    /\ v.kind = "value"
                    /\ number <= T.opening => FracEq(v, Value(0, 1))
                    /\ number >= T.closing => FracEq(v, Value(1, 1))
                    /\ (T.opening < number /\ number < T.closing) =>
                          /\ FracEq(v, Value(number - T.opening, T.closing - T.opening))
                          /\ FracLess(Value(0, 1), v)
                          /\ FracLess(v, Value(1, 1))
        /\ \A i \in 1..Len(df), j \in 1..Len(df) :
              LET T == TimingUsed(df[i].timestamp)
                  U == TimingUsed(df[j].timestamp)
                  ni == timestamp_to_hhmm(df[i].timestamp)
                  nj == timestamp_to_hhmm(df[j].timestamp)
              IN  (T = U /\ T.opening < ni /\ ni < nj /\ nj < T.closing) =>
                      FracLess(df[i].schedule, df[j].schedule)

\* C1 witness: two rows strictly inside the same open period, the later one
\* further along.
C1_Witness ==
    /\ Applied
    /\ LET T == TimingUsed(df[1].timestamp)
       IN  /\ T.opening < timestamp_to_hhmm(df[1].timestamp)
           /\ timestamp_to_hhmm(df[1].timestamp) < timestamp_to_hhmm(df[2].timestamp)
           /\ timestamp_to_hhmm(df[2].timestamp) < T.closing
           /\ FracLess(df[1].schedule, df[2].schedule)

\* C10: for any integer opening and closing, also equal or inverted, get_number
\* divides only when opening < hhmm < closing, so never by zero; the result is
\* in [0,1], 0 up to the opening and 1 past it whenever opening >= closing.
C10_NoDivisionByZero ==
    Applied =>
        \A i \in 1..Len(df) :
            LET T == TimingUsed(df[i].timestamp)
                number == timestamp_to_hhmm(df[i].timestamp)
                v == df[i].schedule
            IN  /\ v.kind = "value"
                /\ v.d > 0
                /\ FracLeq(Value(0, 1), v) /\ FracLeq(v, Value(1, 1))
                /\ v.d # 1 => /\ T.opening < number /\ number < T.closing
                              /\ v.d = T.closing - T.opening
                /\ number <= T.opening => FracEq(v, Value(0, 1))
                /\ (number > T.opening /\ T.opening >= T.closing) => FracEq(v, Value(1, 1))

\* C10 witness: a row past an opening that is not before the closing.
C10_Witness ==
    /\ Applied
    /\ \E i \in 1..Len(df) :
          LET T == TimingUsed(df[i].timestamp)
          IN  /\ T.opening >= T.closing
              /\ timestamp_to_hhmm(df[i].timestamp) > T.opening
              /\ FracEq(df[i].schedule, Value(1, 1))

----------------------------------------------------------------------------
(* create_sequences on its own.                                            *)

\* Longest series, longest window, and largest feature value.
MaxN == 4
MaxL == 5
MaxFeature == 2

InitSeq ==
    /\ pc = "sequences"
    /\ script = "lstm"
    /\ argv = [argc |-> 4, day |-> BadDateArg, opening |-> BadIntArg, closing |-> BadIntArg]
    /\ interval = TIME_INTERVAL
    /\ seasonal = Value(0, 365)
    /\ \E n \in 0..MaxN : \E f \in [1..n -> 0..MaxFeature] :
          timings = [k \in 1..n |-> [normalised |-> Value(f[k], MaxFeature),
                                      seasonal |-> seasonal]]
    /\ sequence_length \in 1..MaxL
    /\ seq_i = 0 /\ X = <<>> /\ y = <<>>
    /\ date_from = 0 /\ date_to = 0 /\ current = 0
    /\ schedule = [default |-> DefaultSchedule, data |-> <<>>]
    /\ timestamps = <<>> /\ original = <<>> /\ df = <<>>
    /\ model = "none" /\ predictions = <<>>
    /\ output \in OutputsBefore
    /\ error = "none" /\ exit_code = -1 /\ stdout = <<>>

NextSeq == CreateSequencesStep \/ CreateSequencesReturn

SpecSeq == InitSeq /\ [][NextSeq]_vars

Returned == script = "lstm" /\ pc = "load_model"

\* C2: for a series of length N >= 0 and a window length L >= 1,
\* create_sequences emits exactly N windows, in index order: features[i : i+L]
\* with target i+L when i + L < N, otherwise the last L elements (the whole
\* series when L > N) with target N-1; so for L <= N the last L windows are equal.
C2_TailPadWindows ==
    LET N == Len(timings)
        L == sequence_length
    IN  /\ (script = "lstm" /\ pc = "sequences") =>
              /\ Len(X) = seq_i /\ Len(y) = seq_i /\ seq_i <= N
        /\ Returned =>
              /\ Len(X) = N /\ Len(y) = N
              /\ \A i \in 0..(N - 1) :
                    IF i + L < N
                    THEN /\ X[i + 1] = [k \in 1..L |-> timings[i + k]]
                         /\ y[i + 1] = i + L
                    ELSE /\ X[i + 1] = (IF L > N THEN timings
                                        ELSE [k \in 1..L |-> timings[N - L + k]])
                         /\ y[i + 1] = N - 1
              /\ L <= N => \A i \in (N - L)..(N - 1) : X[i + 1] = X[N]

\* C2 witness: a series with leading windows and, for L <= N, a repeated tail
\* of L windows over rows that are not all alike.
C2_Witness ==
    /\ Returned
    /\ sequence_length >= 2
    /\ Len(timings) > sequence_length + 1
    /\ X[1] # X[2]
    /\ X[Len(timings) - sequence_length + 1] = X[Len(timings)]
    /\ X[Len(timings)][1] # X[Len(timings)][2]

----------------------------------------------------------------------------
(* The two timestamp loops on their own.                                   *)

\* Largest |date_to - date_from| and largest step, in minutes.
MaxSpan == 12
MaxStep == 5

InitRange ==
    /\ \/ /\ script = "gb_week"
          /\ pc = "timestamps"
          /\ argv = [argc |-> 4, date_from |-> BadDateArg, date_to |-> BadDateArg,
                     schedule |-> [wellformed |-> FALSE, sch |-> << <<>>, <<>> >>]]
          /\ date_from \in {0, 23 * 60 + 55}
          /\ \E d \in (-MaxSpan)..MaxSpan : date_to = date_from + d
          /\ interval \in 1..MaxStep
          /\ current = date_from
          /\ model = "loaded"
       \/ /\ script = "lstm"
          /\ pc = "parse"
          /\ argv \in {a \in ArgvLstm : a.argc = 4}
          /\ interval = TIME_INTERVAL
          /\ date_from = 0 /\ date_to = 0 /\ current = 0
          /\ model = "none"
    /\ seasonal = Value(0, 1)
    /\ schedule = [default |-> DefaultSchedule, data |-> <<>>]
    /\ timestamps = <<>> /\ original = <<>> /\ timings = <<>> /\ df = <<>>
    /\ sequence_length = SEQUENCE_LENGTH /\ seq_i = 0 /\ X = <<>> /\ y = <<>>
    /\ predictions = <<>>
    /\ output \in OutputsBefore
    /\ error = "none" /\ exit_code = -1 /\ stdout = <<>>

NextRange == GenYield \/ GenStop \/ LstmParseArgs \/ LstmLoopStep \/ LstmLoopEnd

SpecRange == InitRange /\ [][NextRange]_vars

\* The length floor((b - a) / step) + 1.
RangeLength(a, b, step) == (b - a) \div step + 1

\* C3 as stated: whatever a, b and the step, the finished series starts with a,
\* steps by exactly one step, stays at or below b, and has floor((b-a)/step) + 1
\* elements; the same for the lstm loop's series.
C3_AsStated ==
    /\ (script \in Tabular /\ pc = "features") =>
          /\ Len(timestamps) = RangeLength(date_from, date_to, interval)
          /\ Len(timestamps) >= 1
          /\ timestamps[1] = date_from
    /\ (script = "lstm" /\ pc = "sequences") =>
          /\ Len(original) = RangeLength(date_from, date_to, interval)
          /\ Len(original) >= 1
          /\ original[1] = Isoformat(date_from)

\* C3 amended: the loop ends after at most max(0, floor((b-a)/step) + 1) turns;
\* the k-th element is a + (k-1) * step and is at most b; when a <= b the
\* finished series starts with a and has floor((b-a)/step) + 1 elements, and
\* when a > b it is empty.  The lstm loop does the same for opening # closing;
\* for opening = closing it records the opening time and raises
\* ZeroDivisionError.
C3_RangeSeries ==
    LET a == date_from
        b == date_to
        full == IF a <= b THEN RangeLength(a, b, interval) ELSE 0
    IN  /\ (script \in Tabular /\ pc \in {"timestamps", "features"}) =>
              /\ Len(timestamps) <= full
              /\ \A k \in 1..Len(timestamps) :
                    timestamps[k] = a + (k - 1) * interval /\ timestamps[k] <= b
              /\ pc = "timestamps" => current = a + Len(timestamps) * interval
              /\ pc = "features" => Len(timestamps) = full
        /\ (script = "lstm" /\ pc \in {"loop", "sequences"}) =>
              /\ Len(original) <= full
              /\ \A k \in 1..Len(original) :
                    original[k] = Isoformat(a + (k - 1) * interval)
                    /\ a + (k - 1) * interval <= b
              /\ pc = "loop" => current = a + Len(original) * interval
              /\ pc = "sequences" => Len(original) = full /\ a # b
        /\ (script = "lstm" /\ pc = "failed" /\ error = "ZeroDivisionError") =>
              a = b /\ original = <<Isoformat(a)>>
        /\ (script = "lstm" /\ pc = "loop" /\ a = b) => original = <<>>

\* C3 witness: a finished series of several elements whose last one lies
\* strictly below date_to.
C3_Witness ==
    /\ script \in Tabular /\ pc = "features"
    /\ Len(timestamps) >= 3
    /\ timestamps[1] = date_from
    /\ timestamps[Len(timestamps)] < date_to
    /\ timestamps[Len(timestamps)] + interval > date_to

----------------------------------------------------------------------------
(* Claims about whole runs (Spec).                                         *)

Scheduled == script = "gb_week" /\ pc \in {"predict", "clip", "write", "done"}

\* C4: week-keyed variant: a timestamp whose week's Monday 00:00 is one of the
\* payload's week-start dates gets its progress from that entry's Timing for
\* its weekday, any other timestamp from the default schedule's.
C4_WeekEntryUsed ==
    Scheduled =>
        \A i \in 1..Len(df) :
            LET t == df[i].timestamp
                monday == get_start_of_week(t)
                wd == get_weekday(t)
                dates == argv.schedule.sch[1]
                blobs == argv.schedule.sch[2]
                hits == {k \in 1..Len(dates) : dates[k] = monday}
                With(T) == Progress(timestamp_to_hhmm(t), T.opening, T.closing)
            IN  IF hits # {}
                THEN \E k \in hits : df[i].schedule = With(blobs[k].timings[wd + 1])
                ELSE df[i].schedule = With(DefaultSchedule[wd + 1])

\* C5: sequence path: one output line per window, and line i carries the
\* timestamp of the last feature row of window i.
C5_LineAtWindowEnd ==
    (script = "lstm" /\ pc = "done") =>
        /\ Len(output.lines) = Len(X)
        /\ \A i \in 1..Len(X) :
              LET w == X[i]
                  last == CHOOSE k \in 1..Len(timings) : timings[k] = w[Len(w)]
              IN  output.lines[i].datetime = original[last]

\* A day of the run's configuration has opening >= closing.
Misconfigured ==
    /\ argv.argc = 4
    /\ \/ /\ script = "gb_week" /\ argv.schedule.wellformed
          /\ \E k \in 1..Len(argv.schedule.sch[2]) :
                \E j \in 1..Len(argv.schedule.sch[2][k].timings) :
                    LET e == argv.schedule.sch[2][k].timings[j]
                    IN  e.opening >= e.closing
       \/ /\ script = "gb_flat"
          /\ \E j \in 1..Len(argv.schedule.timings) :
                argv.schedule.timings[j].opening >= argv.schedule.timings[j].closing
       \/ /\ script = "lstm" /\ argv.opening.ok /\ argv.closing.ok
          /\ argv.opening.val >= argv.closing.val

\* C6: a day with opening >= closing is detected: the run ends in a reported
\* configuration error, with no division fault, no progress value and no
\* model inference.
C6_MisconfigurationReported ==
    Misconfigured =>
        /\ error # "ZeroDivisionError"
        /\ pc \notin {"predict", "clip", "write", "open", "write_lines", "done"}
        /\ pc = "failed" => error \in {"ConfigurationError", "ValueError"}

\* The payload is malformed or lists fewer than seven weekday entries.
BadPayload ==
    /\ argv.argc = 4
    /\ \/ /\ script = "gb_week"
          /\ \/ ~argv.schedule.wellformed
             \/ \E k \in 1..Len(argv.schedule.sch[2]) :
                   \/ ~argv.schedule.sch[2][k].wellformed
                   \/ Len(argv.schedule.sch[2][k].timings) < 7
       \/ /\ script = "gb_flat"
          /\ ~argv.schedule.wellformed \/ Len(argv.schedule.timings) < 7

\* C7: tabular variants: with such a payload the run fails while the schedule
\* is built, and never gets to timestamps, features or inference.
C7_BadPayloadFailsFast ==
    BadPayload =>
        pc \notin {"load_model", "timestamps", "features", "schedule_feature",
                   "predict", "clip", "write", "done"}

\* C8: the output file is created or written only once argument checking,
\* parsing, timestamps, features and inference have all succeeded; a run that
\* fails (a wrong argument count prints the usage and exits 1) leaves the file
\* as it was.
C8_OutputOnlyAfterSuccess ==
    /\ output.touched =>
          /\ pc \in {"write_lines", "done"}
          /\ error = "none"
          /\ argv.argc = 4
          /\ model = "loaded"
          /\ Len(predictions) = (IF script = "lstm" THEN Len(X) ELSE Len(df))
    /\ ~output.touched => output \in OutputsBefore
    /\ pc \in {"failed", "exited"} => ~output.touched /\ exit_code = 1
    /\ pc = "exited" => argv.argc # 4 /\ stdout = <<"Usage">>
    /\ (argv.argc # 4 /\ pc # "start") => pc = "exited"

\* C8 witness: inference raised, and the file an earlier run left is as it was.
C8_Witness ==
    /\ pc = "failed" /\ error = "ModelInvocationError"
    /\ output = [exists |-> TRUE, lines |-> <<StaleLine>>, touched |-> FALSE]

\* C9: every occupancy written lies in [0,1], or in [0,100] where the output is
\* scaled by 100, on all three paths; the tabular paths write one value per
\* generated timestamp, in order.
C9_OccupancyInRange ==
    pc = "done" =>
        /\ \A i \in 1..Len(output.lines) :
              LET v == output.lines[i].occupancy
                  top == IF script = "gb_week" THEN Value(1, 1) ELSE Value(100, 1)
              IN  FracLeq(Value(0, 1), v) /\ FracLeq(v, top)
        /\ script \in Tabular =>
              /\ Len(output.lines) = Len(timestamps)
              /\ \A i \in 1..Len(timestamps) :
                    output.lines[i].datetime = Strftime(timestamps[i])

====
